---- MODULE Spec2Model ----
(***************************************************************************)
(* Model of the upload orchestration of src/src/App.tsx: the task list,    *)
(* the queue operations (handleFilesAdded, removeTask, clearCompleted,     *)
(* retryTask), startUpload with its worker pool, and the progress          *)
(* aggregation (totalBytes, uploadedBytes, globalProgress).                *)
(*                                                                         *)
(* JavaScript runs one handler at a time, so each action below is one      *)
(* handler or one continuation between two awaits, taken as a whole.       *)
(* React applies the functional updates setTasks(prev => ...) in the order *)
(* they were queued, so an update is modelled as applied where it is       *)
(* called.  The buttons are guarded by what the last render shows          *)
(* (disabled=..., conditional rows), and a render follows every update.    *)
(***************************************************************************)
EXTENDS Integers, Sequences, FiniteSets, TLC

VARIABLES
    tasks,        \* useState<UploadTask[]>            (App.tsx:26)
    isUploading,  \* useState(false)                   (App.tsx:27)
    runs,         \* the closures of the startUpload calls made so far
    nextFile,     \* number of File objects handed to handleFilesAdded so far
    last          \* the handler that ran last, with its inputs (history)

vars == <<tasks, isUploading, runs, nextFile, last>>

----------------------------------------------------------------------------
(* Bounds of the model *)

\* const poolSize = 10 (App.tsx:189); the model runs a smaller pool so that a
\* queue of MaxFiles tasks is longer than the pool.
poolSize == 2
MaxFiles == 3      \* File objects ever enqueued
MaxBatch == 2      \* files in one handleFilesAdded call
MaxSize  == 1      \* file.size ranges over 0..MaxSize
MaxIds   == 3      \* distinct outcomes of the random id
MaxRuns  == 2      \* startUpload calls that construct a client

----------------------------------------------------------------------------
(* Values *)

Undefined == "undefined"          \* an absent property / optional field
NaN       == 0 - 1                \* the number NaN (0/0), kept apart from 0..100

Sizes == 0 .. MaxSize
Ids   == 1 .. MaxIds

CorsMessage      == "Error de Red: Verifica las politicas CORS en la configuracion de R2."
ForbiddenMessage == "Acceso Denegado (403): Verifica tus credenciales (Access Key y Secret)."
UnknownMessage   == "Error desconocido"

\* The error values a rejected upload.done() is drawn from: name, message and
\* $metadata.httpStatusCode, each present or absent (status 0: absent).
ErrorNames    == {Undefined, "NetworkingError"}
ErrorMessages == {Undefined, "boom"}
ErrorStatuses == {0, 403}
Errors == [name : ErrorNames, message : ErrorMessages, status : ErrorStatuses]
NoErr  == [name |-> Undefined, message |-> Undefined, status |-> 0]

\* error.message.includes('fetch') on the messages of ErrorMessages
IncludesFetch(m) == m = "Failed to fetch"

----------------------------------------------------------------------------
(* Queue operations: pure functions of the previous task list *)

\* prev.map(t => t.id === id ? f(t) : t) for the four updates of the worker
MarkUploading(ts, id) ==
    [i \in DOMAIN ts |->
        IF ts[i].id = id THEN [ts[i] EXCEPT !.status = "uploading"] ELSE ts[i]]

SetProgress(ts, id, percentage) ==
    [i \in DOMAIN ts |->
        IF ts[i].id = id THEN [ts[i] EXCEPT !.progress = percentage] ELSE ts[i]]

MarkCompleted(ts, id) ==
    [i \in DOMAIN ts |->
        IF ts[i].id = id
        THEN [ts[i] EXCEPT !.status = "completed", !.progress = 100]
        ELSE ts[i]]

MarkError(ts, id, detailedError) ==
    [i \in DOMAIN ts |->
        IF ts[i].id = id
        THEN [ts[i] EXCEPT !.status = "error", !.error = detailedError, !.progress = 0]
        ELSE ts[i]]

removeTask(ts, id) == SelectSeq(ts, LAMBDA t : t.id # id)

\* Mutant of clearCompleted: the filter also drops the failed tasks
clearCompletedAndFailed(ts) ==
    SelectSeq(ts, LAMBDA t : t.status \notin {"completed", "error"})

clearCompleted(ts) == SelectSeq(ts, LAMBDA t : t.status # "completed")

retryTask(ts, id) ==
    [i \in DOMAIN ts |->
        IF ts[i].id = id
        THEN [ts[i] EXCEPT !.status = "pending", !.error = Undefined, !.progress = 0]
        ELSE ts[i]]

\* tasks.filter(t => t.status === 'pending' || t.status === 'error')
pendingTasks(ts) == SelectSeq(ts, LAMBDA t : t.status \in {"pending", "error"})

\* The rows the task list renders (App.tsx:440-448)
Visible(t) ==
    IF ~isUploading THEN t.status # "completed"
    ELSE t.status \in {"uploading", "error"}

----------------------------------------------------------------------------
(* Progress aggregation *)

\* Math.round((loaded / total) * 100); 0/0 is NaN
Percentage(loaded, total) ==
    IF total = 0 THEN NaN ELSE (200 * loaded + total) \div (2 * total)

RECURSIVE SumSeq(_)
SumSeq(s) == IF s = <<>> THEN 0 ELSE Head(s) + SumSeq(Tail(s))

totalBytes(ts) == SumSeq([i \in DOMAIN ts |-> ts[i].file.size])

\* One task's term of uploadedBytes, times 100 (NaN when its progress is NaN)
Contribution(t) ==
    IF t.status = "completed" THEN 100 * t.file.size
    ELSE IF t.status = "error" THEN 0
    ELSE IF t.progress = NaN THEN NaN
    ELSE t.file.size * t.progress

\* uploadedBytes times 100; a NaN term makes the sum NaN
uploadedBytes(ts) ==
    IF \E i \in DOMAIN ts : Contribution(ts[i]) = NaN THEN NaN
    ELSE SumSeq([i \in DOMAIN ts |-> Contribution(ts[i])])

\* Mutant of globalProgress: no test for totalBytes === 0, so 0/0 is NaN
globalProgressUnguarded(ts) ==
    IF totalBytes(ts) = 0 \/ uploadedBytes(ts) = NaN THEN NaN
    ELSE (2 * uploadedBytes(ts) + totalBytes(ts)) \div (2 * totalBytes(ts))

globalProgress(ts) ==
    IF totalBytes(ts) = 0 THEN 0
    ELSE IF uploadedBytes(ts) = NaN THEN NaN
    ELSE (2 * uploadedBytes(ts) + totalBytes(ts)) \div (2 * totalBytes(ts))

----------------------------------------------------------------------------
(* Path resolution in handleFilesAdded.  A string is a sequence of           *)
(* one-character strings; the empty sequence stands for "" and for an absent *)
(* customPath, which the code tells apart from a path only by truthiness.    *)

Truthy(s) == s # <<>>

FirstSlash(s) == CHOOSE i \in 1 .. Len(s) : s[i] = "/" /\ \A j \in 1 .. i - 1 : s[j] # "/"

\* s.split('/')
RECURSIVE Split(_)
Split(s) ==
    IF \A i \in 1 .. Len(s) : s[i] # "/" THEN <<s>>
    ELSE <<SubSeq(s, 1, FirstSlash(s) - 1)>> \o Split(SubSeq(s, FirstSlash(s) + 1, Len(s)))

\* parts.join('/')
RECURSIVE Join(_)
Join(parts) ==
    IF parts = <<>> THEN <<>>
    ELSE IF Len(parts) = 1 THEN parts[1]
    ELSE parts[1] \o <<"/">> \o Join(Tail(parts))

\* let path = ...  (App.tsx:66-76)
resolvePath(file) ==
    IF ~Truthy(file.customPath) /\ Truthy(file.webkitRelativePath)
    THEN LET parts == Split(file.webkitRelativePath)
         IN  IF Len(parts) > 1 THEN Join(Tail(parts)) ELSE file.webkitRelativePath
    ELSE IF Truthy(file.customPath) THEN file.customPath ELSE file.name

\* A File object of the file picker: no customPath, empty webkitRelativePath.
\* fid is the identity of the object.
PickedFile(fid, size) ==
    [fid |-> fid, size |-> size, name |-> <<"f">>,
     customPath |-> <<>>, webkitRelativePath |-> <<>>]

\* The task handleFilesAdded builds for one file (App.tsx:78-84)
NewTask(file, id) ==
    [id |-> id, file |-> file, path |-> resolvePath(file),
     progress |-> 0, status |-> "pending", error |-> Undefined]

\* setTasks(prev => [...prev, ...newTasks]); ids[k] is the random id of files[k]
handleFilesAdded(ts, files, ids) ==
    ts \o [k \in DOMAIN files |-> NewTask(files[k], ids[k])]

----------------------------------------------------------------------------
(* The worker pool of one startUpload call *)

\* A run is the closure of one startUpload call: snap is its pendingTasks,
\* index its cursor, workers the state of its poolSize worker() calls, settled
\* whether "await Promise.all(workers)" has returned or thrown.  History kept
\* with it: claims, the (worker, currentIndex) pairs that passed the bounds
\* test, in order; outcome, how the transfer of each snapshot task ended; born,
\* the number of File objects enqueued before the run started.
Worker(pc, cur, loaded) == [pc |-> pc, cur |-> cur, loaded |-> loaded]

\* Of a task of pendingTasks the worker reads id, path and file only
Snapshot(ts) ==
    [k \in DOMAIN pendingTasks(ts) |->
        [id   |-> pendingTasks(ts)[k].id,
         file |-> pendingTasks(ts)[k].file,
         path |-> pendingTasks(ts)[k].path]]

NewRun(ts) ==
    [snap    |-> Snapshot(ts),
     index   |-> 0,
     workers |-> [w \in 1 .. poolSize |-> Worker("start", 0, 0)],
     settled |-> FALSE,
     claims  |-> <<>>,
     outcome |-> [k \in DOMAIN pendingTasks(ts) |-> "none"],
     born    |-> nextFile]

\* const currentIndex = index++ (App.tsx:194)
NextIndex(run) == run.index + 1

\* One pass of worker w from the top of the while loop to "await upload.done()"
\* or to the break (App.tsx:193-224).
worker(run, w, ts) ==
    LET currentIndex == run.index
        r1 == [run EXCEPT !.index = NextIndex(run)]
    IN  IF currentIndex >= Len(run.snap)
        THEN [run   |-> [r1 EXCEPT !.workers[w] = Worker("done", 0, 0)],
              tasks |-> ts]
        ELSE [run   |-> [r1 EXCEPT !.workers[w] = Worker("awaiting", currentIndex, 0),
                                   !.claims = Append(@, [w |-> w, index |-> currentIndex])],
              tasks |-> MarkUploading(ts, run.snap[currentIndex + 1].id)]

\* for (let i = 0; i < poolSize; i++) workers.push(worker())  (App.tsx:259-262):
\* each call runs to its first await before the next one starts.
RECURSIVE StartWorkers(_, _, _)
StartWorkers(run, w, ts) ==
    IF w > poolSize THEN [run |-> run, tasks |-> ts]
    ELSE LET r == worker(run, w, ts) IN StartWorkers(r.run, w + 1, r.tasks)

\* The task worker w of run holds
Held(run, w) == run.snap[run.workers[w].cur + 1]

\* The run with the end of worker w's transfer recorded
Ended(run, w, how) == [run EXCEPT !.outcome[run.workers[w].cur + 1] = how]

\* let detailedError = ...  (App.tsx:241-246)
DetailedError(error) ==
    IF error.name = "NetworkingError" \/ IncludesFetch(error.message)
    THEN CorsMessage
    ELSE IF error.status = 403 THEN ForbiddenMessage
    ELSE IF error.message \in {Undefined, ""} THEN UnknownMessage
    ELSE error.message

\* error.message.includes('fetch') is evaluated when error.name is not
\* 'NetworkingError'; it throws a TypeError when error.message is undefined.
CatchThrows(error) == error.name # "NetworkingError" /\ error.message = Undefined

\* await Promise.all(workers) returns when every worker has left its loop and
\* throws as soon as one worker has thrown.
AllDone(run) == \A w \in 1 .. poolSize : run.workers[w].pc = "done"
SomeThrew(run) == \E w \in 1 .. poolSize : run.workers[w].pc = "threw"

\* Mutant of Settles: the run waits for every worker to leave its loop, and a
\* worker that threw never does
SettlesWhenAllDone(run) == ~run.settled /\ AllDone(run)

Settles(run) == ~run.settled /\ (AllDone(run) \/ SomeThrew(run))

----------------------------------------------------------------------------
(* State machine *)

\* The handler that ran last: op names it, id is the id of the task it was
\* given and fid the File of that task (0: none), err the rejection it caught,
\* len the length of the task list it found.
Last(op, id, fid, err) ==
    [op |-> op, id |-> id, fid |-> fid, err |-> err, len |-> Len(tasks)]

Init ==
    /\ tasks = <<>>
    /\ isUploading = FALSE
    /\ runs = <<>>
    /\ nextFile = 0
    /\ last = [op |-> "init", id |-> 0, fid |-> 0, err |-> NoErr, len |-> 0]

\* Math.random().toString(36).substring(7) (App.tsx:79) is not checked against
\* the ids in use: a new id is any id.  Ids are only compared for equality, so
\* the ids not yet seen are interchangeable and the smallest stands for them.
UsedIds ==
    {tasks[i].id : i \in DOMAIN tasks}
        \cup UNION {{runs[r].snap[k].id : k \in DOMAIN runs[r].snap} : r \in DOMAIN runs}

RandomIds(used) ==
    used \cup {i \in Ids \ used : \A j \in Ids \ used : i <= j}

RandomIdSeqs(n) ==
    {ids \in [1 .. n -> Ids] :
        \A k \in 1 .. n : ids[k] \in RandomIds(UsedIds \cup {ids[j] : j \in 1 .. k - 1})}

\* The size of the k-th File object the browser hands over: the sizes cycle
\* through 1 .. MaxSize and 0, so that empty and non-empty files both occur.
SizeOf(k) == k % (MaxSize + 1)

\* onChange of the file input (App.tsx:386): handleFilesAdded on n new File objects
FilesAdded ==
    \E n \in 1 .. MaxBatch :
        /\ nextFile + n <= MaxFiles
        /\ \E ids \in RandomIdSeqs(n) :
              tasks' = handleFilesAdded(
                           tasks, [k \in 1 .. n |-> PickedFile(nextFile + k, SizeOf(nextFile + k))], ids)
        /\ nextFile' = nextFile + n
        /\ last' = Last("handleFilesAdded", 0, 0, NoErr)
        /\ UNCHANGED <<isUploading, runs>>

\* The X button of a row: rendered on visible rows whose status is pending
\* (App.tsx:469) or error (App.tsx:486)
RemoveClick ==
    \E i \in DOMAIN tasks :
        /\ Visible(tasks[i])
        /\ tasks[i].status \in {"pending", "error"}
        /\ tasks' = removeTask(tasks, tasks[i].id)
        /\ last' = Last("removeTask", tasks[i].id, tasks[i].file.fid, NoErr)
        /\ UNCHANGED <<isUploading, runs, nextFile>>

\* The Retry button: rendered on visible rows whose status is error (App.tsx:478-485)
RetryClick ==
    \E i \in DOMAIN tasks :
        /\ Visible(tasks[i])
        /\ tasks[i].status = "error"
        /\ tasks' = retryTask(tasks, tasks[i].id)
        /\ last' = Last("retryTask", tasks[i].id, tasks[i].file.fid, NoErr)
        /\ UNCHANGED <<isUploading, runs, nextFile>>

\* A click on the Clear Completed button, disabled={isUploading}
\* (App.tsx:405-407): a disabled button calls no handler.
ClearCompletedClick ==
    /\ tasks' = IF isUploading THEN tasks ELSE clearCompleted(tasks)
    /\ last' = Last("clearCompletedClick", 0, 0, NoErr)
    /\ UNCHANGED <<isUploading, runs, nextFile>>

\* A run none of whose workers is awaiting can do nothing more; its closure is
\* garbage, and the model forgets it when the next run starts.
Live(run) == \E w \in 1 .. poolSize : run.workers[w].pc = "awaiting"

Forgotten ==
    [snap    |-> <<>>,
     index   |-> 0,
     workers |-> [w \in 1 .. poolSize |-> Worker("done", 0, 0)],
     settled |-> TRUE,
     claims  |-> <<>>,
     outcome |-> <<>>,
     born    |-> 0]

Sweep(rs) == [r \in DOMAIN rs |-> IF Live(rs[r]) THEN rs[r] ELSE Forgotten]

\* The Start Upload button is disabled while isUploading or when no task is
\* pending or error (App.tsx:411).

\* Mutant of StartUploadThrows: the catch does not clear isUploading
StartUploadThrowsKeepsFlag ==
    /\ ~isUploading
    /\ pendingTasks(tasks) # <<>>
    /\ isUploading' = TRUE
    /\ last' = Last("startUploadThrows", 0, 0, NoErr)
    /\ UNCHANGED <<tasks, runs, nextFile>>

\* startUpload when the code before the workers throws (the endpoint is not a
\* string, or new S3Client throws): setIsUploading(true), then the catch of
\* App.tsx:267-270.
StartUploadThrows ==
    /\ ~isUploading
    /\ pendingTasks(tasks) # <<>>
    /\ isUploading' = FALSE
    /\ last' = Last("startUploadThrows", 0, 0, NoErr)
    /\ UNCHANGED <<tasks, runs, nextFile>>

\* startUpload up to "await Promise.all(workers)" (App.tsx:166-264)
StartUpload ==
    /\ ~isUploading
    /\ pendingTasks(tasks) # <<>>
    /\ Len(runs) < MaxRuns
    /\ LET s == StartWorkers(NewRun(tasks), 1, tasks)
           settles == Settles(s.run)
       IN  /\ runs' = Append(Sweep(runs), [s.run EXCEPT !.settled = settles])
           /\ tasks' = s.tasks
           /\ isUploading' = ~settles
    /\ last' = Last("startUpload", 0, 0, NoErr)
    /\ UNCHANGED nextFile

\* What follows a worker's step on run r: the run record is stored, and
\* "await Promise.all(workers)" returns or throws if this step ends it; both
\* ways end in setIsUploading(false) (App.tsx:264-270).
AfterWorker(r, run) ==
    /\ runs' = [runs EXCEPT ![r] = [run EXCEPT !.settled = @ \/ Settles(run)]]
    /\ isUploading' = IF Settles(run) THEN FALSE ELSE isUploading

\* upload.on('httpUploadProgress', ...) (App.tsx:217-222): lib-storage reports
\* the bytes acknowledged so far, of total = the size of the body.
HttpUploadProgress ==
    \E r \in DOMAIN runs, w \in 1 .. poolSize :
        /\ runs[r].workers[w].pc = "awaiting"
        /\ \E loaded \in runs[r].workers[w].loaded .. Held(runs[r], w).file.size :
              /\ tasks' = SetProgress(tasks, Held(runs[r], w).id,
                                      Percentage(loaded, Held(runs[r], w).file.size))
              /\ runs' = [runs EXCEPT ![r].workers[w].loaded = loaded]
        /\ last' = Last("httpUploadProgress", Held(runs[r], w).id, Held(runs[r], w).file.fid, NoErr)
        /\ UNCHANGED <<isUploading, nextFile>>

\* upload.done() resolves: the task is marked completed and the worker goes
\* round its loop (App.tsx:224-230, 193-224)
UploadDone ==
    \E r \in DOMAIN runs, w \in 1 .. poolSize :
        /\ runs[r].workers[w].pc = "awaiting"
        /\ LET s == worker(Ended(runs[r], w, "resolved"), w,
                           MarkCompleted(tasks, Held(runs[r], w).id))
           IN  /\ tasks' = s.tasks
               /\ AfterWorker(r, s.run)
        /\ last' = Last("uploadDone", Held(runs[r], w).id, Held(runs[r], w).file.fid, NoErr)
        /\ UNCHANGED nextFile

\* upload.done() rejects with error: the catch of App.tsx:231-255, then the
\* worker goes round its loop; an exception thrown inside the catch leaves
\* the worker's promise rejected.
UploadRejectedWith(errors) ==
    \E r \in DOMAIN runs, w \in 1 .. poolSize, error \in errors :
        /\ runs[r].workers[w].pc = "awaiting"
        /\ IF CatchThrows(error)
           THEN /\ tasks' = tasks
                /\ AfterWorker(r, [Ended(runs[r], w, "rejected")
                                       EXCEPT !.workers[w].pc = "threw"])
           ELSE LET s == worker(Ended(runs[r], w, "rejected"), w,
                                MarkError(tasks, Held(runs[r], w).id, DetailedError(error)))
                IN  /\ tasks' = s.tasks
                    /\ AfterWorker(r, s.run)
        /\ last' = Last("uploadRejected", Held(runs[r], w).id, Held(runs[r], w).file.fid, error)
        /\ UNCHANGED nextFile

UploadRejected == UploadRejectedWith(Errors)

Next ==
    \/ FilesAdded
    \/ RemoveClick
    \/ RetryClick
    \/ ClearCompletedClick
    \/ StartUploadThrows
    \/ StartUpload
    \/ HttpUploadProgress
    \/ UploadDone
    \/ UploadRejected

Spec == Init /\ [][Next]_vars

\* The same program with the user leaving the queue alone while isUploading
SpecQuiet ==
    Init /\ [][\/ ~isUploading /\ FilesAdded
               \/ ~isUploading /\ RemoveClick
               \/ ~isUploading /\ RetryClick
               \/ ~isUploading /\ ClearCompletedClick
               \/ StartUploadThrows
               \/ StartUpload
               \/ HttpUploadProgress
               \/ UploadDone
               \/ UploadRejected]_vars

\* Every started transfer eventually succeeds or fails.  The rejections are
\* drawn from two error values: one the catch records, one that makes it throw.
FairErrors == {NoErr, [name |-> Undefined, message |-> "boom", status |-> 0]}

FairSpec ==
    /\ Init
    /\ [][\/ FilesAdded
           \/ RemoveClick
           \/ RetryClick
           \/ ClearCompletedClick
           \/ StartUploadThrows
           \/ StartUpload
           \/ HttpUploadProgress
           \/ UploadDone
           \/ UploadRejectedWith(FairErrors)]_vars
    /\ WF_vars(UploadDone \/ UploadRejectedWith(FairErrors))

\* The progress aggregation on its own: any task list of up to MaxLen tasks,
\* each of any size, status and progress value, and the render that computes
\* totalBytes, uploadedBytes and globalProgress from it (App.tsx:274-280).
MaxLen == 2

Statuses == {"pending", "uploading", "completed", "error"}

Percentages == {NaN} \cup {Percentage(l, t) : l \in 0 .. MaxSize, t \in 1 .. MaxSize}

Shapes == Sizes \X Statuses \X Percentages

ShapedTask(k, shape) ==
    [id |-> k, file |-> PickedFile(k, shape[1]), path |-> <<"f">>,
     progress |-> shape[3], status |-> shape[2],
     error |-> IF shape[2] = "error" THEN UnknownMessage ELSE Undefined]

InitAggregate ==
    /\ \E n \in 0 .. MaxLen :
          \E shapes \in [1 .. n -> Shapes] :
              tasks = [k \in 1 .. n |-> ShapedTask(k, shapes[k])]
    /\ isUploading = FALSE
    /\ runs = <<>>
    /\ nextFile = 0
    /\ last = [op |-> "init", id |-> 0, fid |-> 0, err |-> NoErr, len |-> 0]

Render ==
    /\ last.op = "init"
    /\ last' = Last("render", 0, 0, NoErr)
    /\ UNCHANGED <<tasks, isUploading, runs, nextFile>>

SpecAggregate == InitAggregate /\ [][Render]_vars

----------------------------------------------------------------------------
(* Properties *)

WorkerOps == {"startUpload", "uploadDone", "uploadRejected"}

\* The positions of the task list that hold the File fid
At(ts, fid) == {i \in DOMAIN ts : ts[i].file.fid = fid}

ClaimedIndexes(run) == {run.claims[a].index : a \in DOMAIN run.claims}

\* No two tasks of the list share an id
DistinctIds(ts) == \A i, j \in DOMAIN ts : i # j => ts[i].id # ts[j].id

\* C1: within one run the claim events are exactly one per snapshot task: no
\* snapshot index is claimed twice, and once no worker of the run is left
\* awaiting a transfer every snapshot index has been claimed.  (Stated for
\* snapshots whose ids are distinct, where an index is a task id.)
C1_EveryTaskClaimedOnce ==
    \A r \in DOMAIN runs : DistinctIds(runs[r].snap) =>
        /\ \A a, b \in DOMAIN runs[r].claims :
              a # b => runs[r].claims[a].index # runs[r].claims[b].index
        /\ ~Live(runs[r]) =>
              /\ Len(runs[r].claims) = Len(runs[r].snap)
              /\ ClaimedIndexes(runs[r]) = 0 .. Len(runs[r].snap) - 1

\* C2: every run settles: whenever isUploading is set, it is cleared later
\* (startUpload has returned), given that transfers end.
C2_RunSettles == isUploading ~> ~isUploading

\* C2 witness: a run has settled after a transfer that succeeded and one that failed
C2_Witness ==
    /\ ~isUploading
    /\ \E r \in DOMAIN runs :
          /\ runs[r].settled
          /\ \E k \in DOMAIN runs[r].outcome : runs[r].outcome[k] = "resolved"
          /\ \E k \in DOMAIN runs[r].outcome : runs[r].outcome[k] = "rejected"

\* When run settles (a step that makes runs[r].settled true), seen from the
\* state after the step
SettledTasksOk(run, ts) ==
    \A k \in DOMAIN run.snap :
        \A i \in At(ts, run.snap[k].file.fid) :
            /\ run.outcome[k] = "resolved" => ts[i].status = "completed"
            /\ run.outcome[k] = "rejected" =>
                  ts[i].status = "error" /\ ts[i].error \notin {Undefined, ""}
            /\ ts[i].status \notin {"pending", "uploading"}

\* C3: with no queue edits during the run, when a run settles every snapshot
\* task whose transfer succeeded is completed, every one whose transfer failed
\* is error with a non-empty message, and none is pending or uploading.
\* (Stated for task lists whose ids are distinct.)
C3_SettledRunLeavesNoTaskBehind ==
    [][\A r \in DOMAIN runs :
          ~runs[r].settled /\ runs'[r].settled /\ DistinctIds(tasks) =>
              SettledTasksOk(runs'[r], tasks')]_vars

\* C4: a rejected transfer, whatever the error carries, is recorded on the
\* task the worker holds as status error and does not make the worker throw;
\* and when isUploading is cleared no task is uploading.  (Stated for task
\* lists whose ids are distinct.)
C4_FailureStaysInWorker ==
    [][DistinctIds(tasks) =>
       /\ last'.op = "uploadRejected" =>
             /\ \A i \in At(tasks', last'.fid) : tasks'[i].status = "error"
             /\ \A r \in DOMAIN runs' : ~SomeThrew(runs'[r])
       /\ isUploading /\ ~isUploading' =>
             \A i \in DOMAIN tasks' : tasks'[i].status # "uploading"]_vars

\* C5: while a run has not settled, and in the step that settles it, the
\* workers mark uploading only tasks of a snapshot, and every task enqueued
\* after the run started is pending.
C5_LateTasksStayPending ==
    [][/\ \A i \in DOMAIN tasks' :
             /\ last'.op \in WorkerOps
             /\ tasks'[i].status = "uploading"
             /\ \A j \in At(tasks, tasks'[i].file.fid) : tasks[j].status # "uploading"
             => \E r \in DOMAIN runs' :
                   \E k \in DOMAIN runs'[r].snap :
                       runs'[r].snap[k].file.fid = tasks'[i].file.fid
       /\ \A r \in DOMAIN runs :
             ~runs[r].settled =>
                 \A i \in DOMAIN tasks' :
                     tasks'[i].file.fid > runs[r].born => tasks'[i].status = "pending"]_vars

\* C6: when startUpload throws before the workers are started, the task list
\* is unchanged, no run is created and isUploading is false afterwards.
C6_ThrowingStartLeavesTasks ==
    [][last'.op = "startUploadThrows" =>
          tasks' = tasks /\ runs' = runs /\ ~isUploading']_vars

\* C6 witness: startUpload has thrown on a queue with eligible tasks
C6_Witness == last.op = "startUploadThrows" /\ pendingTasks(tasks) # <<>>

AllCompleted(ts) == \A i \in DOMAIN ts : ts[i].status = "completed"

\* C7 as claimed: globalProgress is 0 when totalBytes is 0, and 100 when every
\* task is completed, the empty list and lists of zero-byte files included.
C7_AsClaimed ==
    /\ totalBytes(tasks) = 0 => globalProgress(tasks) = 0
    /\ AllCompleted(tasks) => globalProgress(tasks) = 100

\* C7, amended: globalProgress is 0 when totalBytes is 0, and 100 when every
\* task is completed and totalBytes is not 0.
C7_ZeroOrFull ==
    /\ totalBytes(tasks) = 0 => globalProgress(tasks) = 0
    /\ AllCompleted(tasks) /\ totalBytes(tasks) # 0 => globalProgress(tasks) = 100

\* C7 witness: a rendered list of completed tasks, one of them empty, with bytes
C7_Witness ==
    /\ last.op = "render"
    /\ AllCompleted(tasks)
    /\ totalBytes(tasks) # 0
    /\ \E i \in DOMAIN tasks : tasks[i].file.size = 0

\* a < b in JavaScript: false when either side is NaN
Less(a, b) == a # NaN /\ b # NaN /\ a < b

ProgressOps == {"startUpload", "httpUploadProgress", "uploadDone", "uploadRejected"}

\* C8: no step of a run (claim, progress callback, transfer success, transfer
\* failure) lowers a task's contribution to uploadedBytes, nor globalProgress.
\* (Stated for task lists whose ids are distinct.)
C8_ProgressNeverDrops ==
    [][last'.op \in ProgressOps /\ DistinctIds(tasks) =>
          /\ \A i \in DOMAIN tasks : ~Less(Contribution(tasks'[i]), Contribution(tasks[i]))
          /\ ~Less(globalProgress(tasks'), globalProgress(tasks))]_vars

\* C9: retryTask(id) leaves every task whose status is not error as it was.
C9_RetryOnlyTouchesFailed ==
    [][last'.op = "retryTask" =>
          \A i \in DOMAIN tasks : tasks[i].status # "error" => tasks'[i] = tasks[i]]_vars

\* The positions of the tasks that are not completed, and the place of such a
\* position among them
Kept(ts) == {i \in DOMAIN ts : ts[i].status # "completed"}
PlaceOf(ts, i) == Cardinality({j \in Kept(ts) : j <= i})

\* C10: a click on Clear Completed while isUploading leaves the task list
\* unchanged; while not isUploading it removes the completed tasks and keeps
\* every other task, unchanged and in the same order.
C10_ClearCompleted ==
    [][last'.op = "clearCompletedClick" =>
          IF isUploading THEN tasks' = tasks
          ELSE /\ Len(tasks') = Cardinality(Kept(tasks))
               /\ \A i \in Kept(tasks) : tasks'[PlaceOf(tasks, i)] = tasks[i]]_vars

\* C10 witness: the button was clicked during a run with a completed task in
\* the list
C10_Witness ==
    /\ last.op = "clearCompletedClick"
    /\ isUploading
    /\ \E i \in DOMAIN tasks : tasks[i].status = "completed"

\* C11: no step takes a task whose status is uploading out of the queue: a
\* removeTask call leaves every uploading task in the list, so a task marked
\* uploading is in the list until its transfer ends.
C11_UploadingTaskStays ==
    [][\A i \in DOMAIN tasks :
          tasks[i].status = "uploading" => At(tasks', tasks[i].file.fid) # {}]_vars

\* The transfers in flight: the (run, worker) pairs awaiting upload.done()
InFlight == {rw \in (DOMAIN runs) \X (1 .. poolSize) : runs[rw[1]].workers[rw[2]].pc = "awaiting"}

Uploading(ts) == {i \in DOMAIN ts : ts[i].status = "uploading"}

\* C12: in every reachable state at most poolSize tasks have status uploading
\* and at most poolSize transfers are in flight.  (Stated for task lists whose
\* ids are distinct.)
C12_AtMostPoolSizeUploading ==
    DistinctIds(tasks) =>
        /\ Cardinality(Uploading(tasks)) <= poolSize
        /\ Cardinality(InFlight) <= poolSize

----------------------------------------------------------------------------
(* The classification of a rejection *)

\* The values a rejection can carry: a name (absent, the SDK's
\* 'NetworkingError', the browser's 'TypeError'), a message (absent, empty,
\* without and with 'fetch' in it) and an HTTP status (0: absent).
AllErrorNames    == {Undefined, "NetworkingError", "TypeError"}
AllErrorMessages == {Undefined, "", "boom", "Failed to fetch"}
AllErrorStatuses == {0, 403, 500}
AllErrors == [name : AllErrorNames, message : AllErrorMessages, status : AllErrorStatuses]

\* The program with enqueue, run start and rejections only, the rejections
\* drawn from AllErrors
SpecClassify ==
    Init /\ [][\/ FilesAdded
               \/ StartUpload
               \/ UploadRejectedWith(AllErrors)]_vars

\* The classes of the claim: a network failure is one the code recognises as
\* such, by its name or by 'fetch' in its message
NetworkFailure(error) == error.name = "NetworkingError" \/ IncludesFetch(error.message)

ExpectedMessage(error) ==
    IF NetworkFailure(error) THEN CorsMessage
    ELSE IF error.status = 403 THEN ForbiddenMessage
    ELSE error.message

\* C13: the message recorded for a rejected transfer is the CORS message for a
\* network failure, the credentials message for another failure with HTTP
\* status 403, and the error's own message, unchanged, for every other failure.
C13_MessageByClass ==
    [][last'.op = "uploadRejected" =>
          \A i \in At(tasks', last'.fid) : tasks'[i].error = ExpectedMessage(last'.err)]_vars

----------------------------------------------------------------------------
(* Path resolution: what a drop or a directory selection hands to            *)
(* handleFilesAdded.  A name is a string without '/', a string a sequence of *)
(* one-character strings.                                                    *)

MaxDepth == 2      \* directory levels of a dropped or selected tree
MaxKids  == 2      \* entries of one directory

Names == {<<"a">>, <<"a", "b">>}

\* No two entries of one directory have the same name
DistinctNames(entries) ==
    \A i, j \in DOMAIN entries : i # j => entries[i].name # entries[j].name

\* The FileSystemEntry trees of at most d directory levels below the
\* directory whose fullPath (a sequence of names) is prefix
RECURSIVE Tree(_, _)
Tree(d, prefix) ==
    {[isFile |-> TRUE, name |-> n, fullPath |-> Append(prefix, n), children |-> <<>>] :
        n \in Names}
    \cup
    IF d = 0 THEN {}
    ELSE UNION {{[isFile |-> FALSE, name |-> n, fullPath |-> Append(prefix, n), children |-> c] :
                    c \in {e \in UNION {[1 .. k -> Tree(d - 1, Append(prefix, n))] :
                                            k \in {j \in 0 .. MaxKids : j <= Cardinality(Names)}} :
                              DistinctNames(e)}} :
                  n \in Names}

RECURSIVE Flat(_)
Flat(ss) == IF ss = <<>> THEN <<>> ELSE Head(ss) \o Flat(Tail(ss))

\* The File of a file entry (entry.file(...)), before customPath is set; at
\* records where the file sits, the names from the top-level entry down
EntryFile(entry) ==
    [fid |-> 0, size |-> 0, name |-> entry.name,
     customPath |-> <<>>, webkitRelativePath |-> <<>>, at |-> entry.fullPath]

\* Mutant of getFilesFromEntry: the root directory's name is not left out
RECURSIVE getFilesFromEntryKeepsRoot(_, _, _)
getFilesFromEntryKeepsRoot(entry, path, isRoot) ==
    IF entry.isFile
    THEN <<[EntryFile(entry) EXCEPT !.customPath = path \o entry.name]>>
    ELSE LET newPath == path \o entry.name \o <<"/">>
         IN  Flat([k \in DOMAIN entry.children |->
                      getFilesFromEntryKeepsRoot(entry.children[k], newPath, FALSE)])

RECURSIVE getFilesFromEntry(_, _, _)
getFilesFromEntry(entry, path, isRoot) ==
    IF entry.isFile
    THEN <<[EntryFile(entry) EXCEPT !.customPath = path \o entry.name]>>
    ELSE LET newPath == IF isRoot THEN path ELSE path \o entry.name \o <<"/">>
         IN  Flat([k \in DOMAIN entry.children |->
                      getFilesFromEntry(entry.children[k], newPath, FALSE)])

\* The file entries of a tree, in directory order
RECURSIVE FileEntries(_)
FileEntries(entry) ==
    IF entry.isFile THEN <<entry>>
    ELSE Flat([k \in DOMAIN entry.children |-> FileEntries(entry.children[k])])

\* The FileList of the directory input for a selected directory: each File
\* has webkitRelativePath "Root/.../name" and no customPath
DirectoryFiles(entry) ==
    [k \in DOMAIN FileEntries(entry) |->
        [EntryFile(FileEntries(entry)[k])
            EXCEPT !.webkitRelativePath = Join(FileEntries(entry)[k].fullPath)]]

\* The File objects numbered as they are handed over
Numbered(files) == [k \in DOMAIN files |-> [files[k] EXCEPT !.fid = nextFile + k]]

\* handleDrop with one dropped item, a file or a directory (App.tsx:124-147);
\* the first thing added to the queue
HandleDrop ==
    /\ nextFile = 0
    /\ \E entry \in Tree(MaxDepth, <<>>) :
        LET allFiles == Numbered(getFilesFromEntry(entry, <<>>, TRUE))
        IN  /\ Len(allFiles) > 0
            /\ Len(allFiles) <= MaxFiles
            /\ \E ids \in RandomIdSeqs(Len(allFiles)) :
                  tasks' = handleFilesAdded(tasks, allFiles, ids)
            /\ nextFile' = nextFile + Len(allFiles)
            /\ last' = Last("handleDrop", 0, 0, NoErr)
            /\ UNCHANGED <<isUploading, runs>>

\* onChange of the directory input (App.tsx:388-397); the first thing added
\* to the queue
DirectorySelected ==
    /\ nextFile = 0
    /\ \E entry \in {e \in Tree(MaxDepth, <<>>) : ~e.isFile} :
        LET files == Numbered(DirectoryFiles(entry))
        IN  /\ Len(files) > 0
            /\ Len(files) <= MaxFiles
            /\ \E ids \in RandomIdSeqs(Len(files)) :
                  tasks' = handleFilesAdded(tasks, files, ids)
            /\ nextFile' = nextFile + Len(files)
            /\ last' = Last("directorySelected", 0, 0, NoErr)
            /\ UNCHANGED <<isUploading, runs>>

\* The three ways files reach the queue
SpecPath ==
    Init /\ [][\/ FilesAdded
               \/ HandleDrop
               \/ DirectorySelected]_vars

\* Where a File sits: the names from the top-level entry down to the file; a
\* File of the file picker is its own top-level entry
Where(file) == IF "at" \in DOMAIN file THEN file.at ELSE <<file.name>>

\* The names below the top-level directory, joined by '/'; a bare file's name
BelowTopLevel(at) == IF Len(at) > 1 THEN Join(Tail(at)) ELSE Join(at)

\* The string p starts with the segment seg
StartsWithSegment(p, seg) ==
    \/ p = seg
    \/ /\ Len(p) > Len(seg)
       /\ SubSeq(p, 1, Len(seg)) = seg
       /\ p[Len(seg) + 1] = "/"

EnqueueOps == {"handleFilesAdded", "handleDrop", "directorySelected"}

\* The positions of the tasks a step has appended
Appended == {i \in DOMAIN tasks' : i > Len(tasks)}

\* C14 as claimed: the key of every new task is the path below the top-level
\* directory (the file's name for a bare file), and the key of a file reached
\* through a directory never starts with the top-level directory's segment.
C14_AsClaimed ==
    [][last'.op \in EnqueueOps =>
          \A i \in Appended :
              /\ tasks'[i].path = BelowTopLevel(Where(tasks'[i].file))
              /\ Len(Where(tasks'[i].file)) > 1 =>
                    ~StartsWithSegment(tasks'[i].path, Where(tasks'[i].file)[1])]_vars

\* C14, amended: the key of every new task is the path below the top-level
\* directory: the names of the directories between the top-level directory
\* and the file and the file's name, joined by '/'; the file's name for a
\* bare file.
C14_KeyBelowTopLevel ==
    [][last'.op \in EnqueueOps =>
          \A i \in Appended :
              tasks'[i].path = BelowTopLevel(Where(tasks'[i].file))]_vars

\* C14 witness: a dropped directory with a file two levels down, in a
\* subdirectory named like the dropped directory
C14_Witness ==
    /\ last.op = "handleDrop"
    /\ \E i \in DOMAIN tasks :
          /\ Len(Where(tasks[i].file)) = 3
          /\ Where(tasks[i].file)[2] = Where(tasks[i].file)[1]

----------------------------------------------------------------------------
(* Properties of the queue and of the runs *)

\* C15: handleFilesAdded keeps the existing tasks, unchanged and in order,
\* and appends the new tasks in arrival order, each pending with progress 0
\* and with an id that no other task of the list has.
C15_EnqueueAppendsFreshTasks ==
    [][last'.op = "handleFilesAdded" =>
          /\ Len(tasks') = Len(tasks) + (nextFile' - nextFile)
          /\ SubSeq(tasks', 1, Len(tasks)) = tasks
          /\ \A i \in Appended :
                /\ tasks'[i].file.fid = nextFile + (i - Len(tasks))
                /\ tasks'[i].status = "pending"
                /\ tasks'[i].progress = 0
                /\ \A j \in DOMAIN tasks' : j # i => tasks'[j].id # tasks'[i].id]_vars

\* The status changes of the task state machine
Transitions ==
    {<<"pending", "uploading">>, <<"uploading", "completed">>,
     <<"uploading", "error">>, <<"error", "pending">>}

\* C16: in every step, a task that stays in the list keeps its status or
\* changes it by one of the four transitions; in particular it never goes from
\* error to uploading and never leaves completed.  (Stated for task lists
\* whose ids are distinct.)
C16_OnlyListedTransitions ==
    [][DistinctIds(tasks) =>
          \A i \in DOMAIN tasks :
              \A j \in At(tasks', tasks[i].file.fid) :
                  \/ tasks'[j].status = tasks[i].status
                  \/ <<tasks[i].status, tasks'[j].status>> \in Transitions]_vars

\* C17: in every reachable state a task whose status is not error carries no
\* error message.  (Stated for task lists whose ids are distinct.)
C17_MessageOnlyOnError ==
    DistinctIds(tasks) =>
        \A i \in DOMAIN tasks : tasks[i].status # "error" => tasks[i].error = Undefined

\* The File the worker rw[2] of the run rw[1] is transferring
HeldFile(rw) == Held(runs[rw[1]], rw[2]).file.fid

\* C18: in every reachable state no two in-flight transfers are of the same
\* task, and at most one run has workers awaiting a transfer.  (Stated for
\* task lists whose ids are distinct.)
C18_OneWorkerPerTask ==
    DistinctIds(tasks) =>
        /\ \A a, b \in InFlight : a # b => HeldFile(a) # HeldFile(b)
        /\ \A r, s \in DOMAIN runs : Live(runs[r]) /\ Live(runs[s]) => r = s

\* C19: in every reachable state a completed task has progress 100 and an
\* error task has progress 0 and a non-empty error message.  (Stated for task
\* lists whose ids are distinct.)
C19_SettledTaskValues ==
    DistinctIds(tasks) =>
        \A i \in DOMAIN tasks :
            /\ tasks[i].status = "completed" => tasks[i].progress = 100
            /\ tasks[i].status = "error" =>
                  tasks[i].progress = 0 /\ tasks[i].error \notin {Undefined, ""}

\* The percentages the transfers of the File fid report in a step: for a
\* worker holding it, round(loaded / total * 100) of the loaded it has reached
Reported(fid) ==
    {Percentage(runs'[rw[1]].workers[rw[2]].loaded, Held(runs[rw[1]], rw[2]).file.size) :
        rw \in {x \in InFlight : HeldFile(x) = fid}}

\* C20: a progress callback for a task keeps the length and the order of the
\* list, sets that task's progress to round(loaded / total * 100) and leaves
\* its other fields, and every other task, as they were; it changes nothing
\* when the task is not in the list.
C20_ProgressTouchesOneTask ==
    [][last'.op = "httpUploadProgress" =>
          /\ Len(tasks') = Len(tasks)
          /\ \A i \in DOMAIN tasks :
                IF tasks[i].file.fid = last'.fid
                THEN /\ tasks'[i].progress \in Reported(last'.fid)
                     /\ tasks'[i] = [tasks[i] EXCEPT !.progress = tasks'[i].progress]
                ELSE tasks'[i] = tasks[i]]_vars

\* C21: while a run is active (isUploading) no step takes a task from error
\* to pending: a retry takes effect only when no run is active.  (Stated for
\* task lists whose ids are distinct.)
C21_NoRetryDuringRun ==
    [][isUploading /\ DistinctIds(tasks) =>
          \A i \in DOMAIN tasks :
              \A j \in At(tasks', tasks[i].file.fid) :
                  ~(tasks[i].status = "error" /\ tasks'[j].status = "pending")]_vars

\* The number of claims the run r had made before a step (none for a run the
\* step creates)
ClaimsBefore(r) == IF r \in DOMAIN runs THEN Len(runs[r].claims) ELSE 0

\* The snapshot tasks whose transfers a step starts: the claims it adds
StartedInStep ==
    UNION {{runs'[r].snap[runs'[r].claims[a].index + 1] :
               a \in {b \in DOMAIN runs'[r].claims : b > ClaimsBefore(r)}} :
              r \in DOMAIN runs'}

\* No worker of a run has thrown out of its catch
NoneThrew(rs) == \A r \in DOMAIN rs : ~SomeThrew(rs[r])

\* C22: every transfer a worker starts is of a task that is in the queue: a
\* task that was removed is not uploaded afterwards.  (Stated for task lists
\* whose ids are distinct and runs in which no worker has thrown.)
C22_NoTransferOfRemovedTask ==
    [][DistinctIds(tasks) /\ NoneThrew(runs') /\ last'.op \in WorkerOps =>
          \A t \in StartedInStep : At(tasks', t.file.fid) # {}]_vars

====
